---- MODULE Spec2Model ----
(***************************************************************************)
(* FFmpeg MCP server (src/ffmpeg_mcp.py): the tool dispatcher              *)
(* handle_call_tool, the FFmpegProcessor single-file operations and the    *)
(* FileManager batch runner.                                               *)
(*                                                                         *)
(* Python values are sequences of strings: <<"none">> is None, <<"list">>  *)
(* a JSON array, <<"int", d>> an integer with decimal text d and           *)
(* <<"str", c1, ..., cn>> a string; a string used as a path has the path   *)
(* components c1..cn, so the one-component <<"str", "x.jpg">> is a path    *)
(* without directory part.  File names are atoms whose characters are      *)
(* given by Chars.                                                         *)
(***************************************************************************)
EXTENDS Integers, Sequences, FiniteSets, TLC

VARIABLES
    pc,                 \* "idle": waiting for a request; "responded": handle_call_tool has
                        \* returned; "listed": handle_list_tools has returned
    caseInsensitive,    \* the platform's pathlib pattern matching (Windows: TRUE, POSIX: FALSE)
    dirs,               \* the directories that exist on the filesystem
    last,               \* the last request, what it observed, what it did and what it returned
    listed              \* the tool names handle_list_tools returned, in order (<<>>: not asked)

vars == <<pc, caseInsensitive, dirs, last, listed>>

-----------------------------------------------------------------------------
(* Bounds *)

MaxDirFiles == 2        \* files in the source directory of a batch

-----------------------------------------------------------------------------
(* Python values *)

Absent == <<"absent">>                  \* the key is not in the argument map
NoneV == <<"none">>
ListV == <<"list">>
IntV(d) == <<"int", d>>
StrV(p) == <<"str">> \o p

IsStr(v) == v[1] = "str"
PathOf(v) == Tail(v)

\* arguments.get(key) and arguments.get(key, default)
Get(args, key) == IF args[key] = Absent THEN NoneV ELSE args[key]
GetDefault(args, key, default) == IF args[key] = Absent THEN default ELSE args[key]

DefaultQuality == IntV("85")
DefaultCrf == IntV("23")
DefaultPreset == StrV(<<"medium">>)

-----------------------------------------------------------------------------
(* Characters and file names *)

LowerAlpha == <<"a", "b", "c", "d", "e", "f", "g", "h", "i", "j", "k", "l", "m",
                "n", "o", "p", "q", "r", "s", "t", "u", "v", "w", "x", "y", "z">>
UpperAlpha == <<"A", "B", "C", "D", "E", "F", "G", "H", "I", "J", "K", "L", "M",
                "N", "O", "P", "Q", "R", "S", "T", "U", "V", "W", "X", "Y", "Z">>

LowerLetters == {LowerAlpha[i] : i \in 1..Len(LowerAlpha)}

\* the upper-case letter of each lower-case letter
UpperOf == [c \in LowerLetters |-> UpperAlpha[CHOOSE i \in 1..Len(LowerAlpha) : LowerAlpha[i] = c]]

\* str.upper() on one character
UpperChar(c) == IF c \in LowerLetters THEN UpperOf[c] ELSE c

\* str.upper()
Upper(s) == [i \in 1..Len(s) |-> UpperChar(s[i])]

\* the characters of the file names of the model
Chars(name) ==
    CASE name = "a.jpg"     -> <<"a", ".", "j", "p", "g">>
      [] name = "A.JPG"     -> <<"A", ".", "J", "P", "G">>
      [] name = "a.Jpg"     -> <<"a", ".", "J", "p", "g">>
      [] name = "a.jpgx"    -> <<"a", ".", "j", "p", "g", "x">>
      [] name = "photo.jpg" -> <<"p", "h", "o", "t", "o", ".", "j", "p", "g">>
      [] name = "doc.txt"   -> <<"d", "o", "c", ".", "t", "x", "t">>
      [] name = "clip.mp4"  -> <<"c", "l", "i", "p", ".", "m", "p", "4">>

\* the names a source directory holds in the model
FileNames == {"a.jpg", "A.JPG", "a.Jpg", "a.jpgx", "doc.txt", "clip.mp4"}

image_extensions ==
    << <<"j", "p", "g">>, <<"j", "p", "e", "g">>, <<"p", "n", "g">>, <<"b", "m", "p">>,
       <<"g", "i", "f">>, <<"t", "i", "f", "f">>, <<"w", "e", "b", "p">> >>

video_extensions ==
    << <<"m", "p", "4">>, <<"a", "v", "i">>, <<"m", "k", "v">>, <<"m", "o", "v">>,
       <<"w", "m", "v">>, <<"f", "l", "v">>, <<"w", "e", "b", "m">>, <<"m", "4", "v">> >>

all_extensions == image_extensions \o video_extensions

-----------------------------------------------------------------------------
(* The filesystem *)

SrcDir == <<"in">>
MediaDir == <<"media">>
MediaFile == <<"media", "photo.jpg">>

\* the regular files that exist apart from the source directory's
RegularFiles == {MediaFile}

\* os.path.dirname
DirName(p) == SubSeq(p, 1, Len(p) - 1)

\* os.path.join(directory, name) for a relative name
Join(d, name) == Append(d, name)

Prefixes(p) == {SubSeq(p, 1, n) : n \in 1..Len(p)}

\* os.path.exists raises TypeError for None and for a list
ExistsRaises(v) == ~IsStr(v)

\* os.path.exists(p) for a path string, with the source directory holding `listing`
PathExists(ds, listing, p) ==
    \/ p \in ds
    \/ p \in RegularFiles
    \/ \E i \in 1..Len(listing) : p = Join(SrcDir, listing[i])

IsRegularFile(listing, p) ==
    \/ p \in RegularFiles
    \/ \E i \in 1..Len(listing) : p = Join(SrcDir, listing[i])

\* a makedirs that takes the empty path for the current directory
MakedirsAcceptsEmpty(listing, d) == \E q \in Prefixes(d) : IsRegularFile(listing, q)

\* os.makedirs(d, exist_ok=True) raises for the empty path (FileNotFoundError) and
\* when d or one of its ancestors is a regular file
MakedirsRaises(listing, d) ==
    \/ d = <<>>
    \/ \E q \in Prefixes(d) : IsRegularFile(listing, q)

\* the directories in place after os.makedirs(d, exist_ok=True): the ancestors are
\* made first, so the ones above a blocking regular file exist even when it raises
MakedirsDirs(ds, listing, d) ==
    ds \cup {q \in Prefixes(d) : \A r \in Prefixes(q) : ~IsRegularFile(listing, r)}

-----------------------------------------------------------------------------
(* What a call leaves behind: events, in the order they happen *)

\* ev: "invoke" (the dispatcher or the batch runner calls an operation), "makedirs"
\*     (os.makedirs), "spawn" (subprocess.run starts a process), "return" (a
\*     transcode operation returns True or False)
Event(ev, op, vals, out) == [ev |-> ev, op |-> op, vals |-> vals, out |-> out]

Outcomes == {"exit0", "nonzero", "spawnfail"}

-----------------------------------------------------------------------------
(* FFmpegProcessor *)

\* The body shared by the six transcode methods: makedirs of the output's parent,
\* the command line, subprocess.run, returncode == 0; any exception gives False.
\* cmdIsText: every element of the command line is a string.
Transcode(ds, listing, op, input, output, params, cmdIsText, outcome) ==
    LET call == Event("invoke", op, <<input, output>> \o params, "")
        false == Event("return", op, <<input, output>>, "false")
        true == Event("return", op, <<input, output>>, "true")
    IN
    IF ~IsStr(output)
    THEN \* os.path.dirname raises TypeError
         [ok |-> FALSE, dirs |-> ds, log |-> <<call, false>>]
    ELSE LET d == DirName(PathOf(output))
             made == MakedirsDirs(ds, listing, d)
         IN  IF MakedirsRaises(listing, d)
             THEN [ok |-> FALSE, dirs |-> made,
                   log |-> <<call, Event("makedirs", "", <<StrV(d)>>, "raise"), false>>]
             ELSE IF ~cmdIsText
             THEN \* subprocess.run raises TypeError before it starts a process
                  [ok |-> FALSE, dirs |-> made,
                   log |-> <<call, Event("makedirs", "", <<StrV(d)>>, "ok"), false>>]
             ELSE [ok |-> outcome = "exit0", dirs |-> made,
                   log |-> <<call, Event("makedirs", "", <<StrV(d)>>, "ok"),
                             Event("spawn", "ffmpeg", <<input, output>>, outcome),
                             IF outcome = "exit0" THEN true ELSE false>>]

compress_image(ds, listing, input_path, output_path, quality, outcome) ==
    Transcode(ds, listing, "compress_image", input_path, output_path, <<quality>>, TRUE, outcome)

convert_image_format(ds, listing, input_path, output_path, outcome) ==
    Transcode(ds, listing, "convert_image_format", input_path, output_path, <<>>, TRUE, outcome)

resize_image(ds, listing, input_path, output_path, width, height, outcome) ==
    Transcode(ds, listing, "resize_image", input_path, output_path, <<width, height>>, TRUE, outcome)

\* preset goes into the command line as it is, crf through str()
compress_video(ds, listing, input_path, output_path, crf, preset, outcome) ==
    Transcode(ds, listing, "compress_video", input_path, output_path, <<crf, preset>>,
              IsStr(preset), outcome)

convert_video_format(ds, listing, input_path, output_path, outcome) ==
    Transcode(ds, listing, "convert_video_format", input_path, output_path, <<>>, TRUE, outcome)

resize_video(ds, listing, input_path, output_path, width, height, outcome) ==
    Transcode(ds, listing, "resize_video", input_path, output_path, <<width, height>>, TRUE, outcome)

ProbeOutcomes == {"exit0", "badjson", "nonzero", "spawnfail"}

\* ffprobe: the parsed document on exit 0, an exception otherwise (a non-zero exit,
\* a process that cannot start, output that is not JSON)
get_media_info(file_path, outcome) ==
    [raised |-> outcome # "exit0",
     log |-> <<Event("invoke", "get_media_info", <<file_path>>, ""),
               Event("spawn", "ffprobe", <<file_path>>, outcome)>>]

StatusOutcomes == {"exit0", "nonzero", "spawnfail", "timeout"}

\* ffmpeg -version with a 10 s timeout: True on exit 0, False otherwise
check_ffmpeg_available(outcome) ==
    [ok |-> outcome = "exit0",
     log |-> <<Event("invoke", "check_ffmpeg_available", <<>>, ""),
               Event("spawn", "ffmpeg", <<>>, outcome)>>]

-----------------------------------------------------------------------------
(* FileManager *)

\* the entries of a directory, in the order the platform enumerates them
ScanDir(listing, directory) ==
    IF directory = SrcDir THEN listing
    ELSE IF directory = MediaDir THEN <<"photo.jpg">>
    ELSE <<>>

\* pathlib's match of a name against the pattern "*.<ext>"
GlobMatch(ci, name, ext) ==
    LET cs == Chars(name)
        suffix == <<".">> \o ext
        off == Len(cs) - Len(suffix)
    IN  /\ off >= 0
        /\ \A i \in 1..Len(suffix) :
              IF ci THEN UpperChar(cs[off + i]) = UpperChar(suffix[i])
              ELSE cs[off + i] = suffix[i]

\* the patterns the batch runner globs for: every extension, lower and upper case
Patterns ==
    {all_extensions[k] : k \in 1..Len(all_extensions)}
        \cup {Upper(all_extensions[k]) : k \in 1..Len(all_extensions)}

\* GlobMatch on each platform, for every name and pattern of the model
GlobMatches ==
    [ci \in BOOLEAN |->
        [n \in FileNames \cup {"photo.jpg"} |-> {e \in Patterns : GlobMatch(ci, n, e)}]]

\* path.glob(f"*.{ext}"), as path strings
Glob(ci, listing, directory, ext) ==
    LET names == SelectSeq(ScanDir(listing, directory), LAMBDA n : ext \in GlobMatches[ci][n])
    IN  [i \in 1..Len(names) |-> Join(directory, names[i])]

RECURSIVE GlobAll(_, _, _, _, _)
\* the loop over the extensions from the k-th on: each one lower case, then upper case
GlobAll(ci, listing, directory, extensions, k) ==
    IF k > Len(extensions) THEN <<>>
    ELSE Glob(ci, listing, directory, extensions[k])
         \o Glob(ci, listing, directory, Upper(extensions[k]))
         \o GlobAll(ci, listing, directory, extensions, k + 1)

get_files_by_extension(ci, ds, listing, directory, extensions) ==
    IF directory \in ds THEN GlobAll(ci, listing, directory, extensions, 1) ELSE <<>>

\* the order in which the platform enumerates the source directory's entries
ScanOrder == <<"a.jpg", "A.JPG", "a.Jpg", "a.jpgx", "doc.txt", "clip.mp4">>

SameIgnoringCase(n, m) == Upper(Chars(n)) = Upper(Chars(m))

\* what the source directory can hold: at most MaxDirFiles names, and on a
\* case-insensitive platform no two names that differ in case only
Listings(ci) ==
    {SelectSeq(ScanOrder, LAMBDA n : n \in S) :
        S \in {T \in SUBSET FileNames :
                 /\ Cardinality(T) <= MaxDirFiles
                 /\ ci => \A n, m \in T : SameIgnoringCase(n, m) => n = m}}

\* process_func(file_path, output_path, **kwargs)
ProcessFunc(process_func, ds, listing, file_path, output_path, kwargs, outcome) ==
    IF process_func = "compress_image"
    THEN compress_image(ds, listing, file_path, output_path, kwargs[1], outcome)
    ELSE compress_video(ds, listing, file_path, output_path, kwargs[1], kwargs[2], outcome)

JoinError == "expected str, bytes or os.PathLike object"

\* a loop body that records the reason with every failed file
BatchStepAlwaysReason(acc, listing, file_path, output_dir, process_func, kwargs, outcome) ==
    LET file_name == file_path[Len(file_path)] IN
    IF ~IsStr(output_dir)
    THEN [acc EXCEPT !.failed = Append(@, <<file_name, ": ", JoinError>>)]
    ELSE LET r == ProcessFunc(process_func, acc.dirs, listing, StrV(file_path),
                              StrV(Join(PathOf(output_dir), file_name)), kwargs, outcome)
         IN  IF r.ok
             THEN [acc EXCEPT !.success = Append(@, file_name),
                              !.dirs = r.dirs, !.log = @ \o r.log]
             ELSE [acc EXCEPT !.failed = Append(@, <<file_name, ": ", "failed">>),
                              !.dirs = r.dirs, !.log = @ \o r.log]

\* one pass of the loop body of batch_process_files over file_path
BatchStep(acc, listing, file_path, output_dir, process_func, kwargs, outcome) ==
    LET file_name == file_path[Len(file_path)] IN
    IF ~IsStr(output_dir)
    THEN \* os.path.join raises TypeError: the except branch
         [acc EXCEPT !.failed = Append(@, <<file_name, ": ", JoinError>>)]
    ELSE LET r == ProcessFunc(process_func, acc.dirs, listing, StrV(file_path),
                              StrV(Join(PathOf(output_dir), file_name)), kwargs, outcome)
         IN  IF r.ok
             THEN [acc EXCEPT !.success = Append(@, file_name),
                              !.dirs = r.dirs, !.log = @ \o r.log]
             ELSE [acc EXCEPT !.failed = Append(@, <<file_name>>),
                              !.dirs = r.dirs, !.log = @ \o r.log]

RECURSIVE BatchLoopAborts(_, _, _, _, _, _, _, _)
\* a loop that ends at the first file that fails
BatchLoopAborts(acc, listing, files, i, output_dir, process_func, kwargs, outcomes) ==
    IF i > Len(files) \/ acc.failed # <<>> THEN acc
    ELSE BatchLoopAborts(
             BatchStep(acc, listing, files[i], output_dir, process_func, kwargs, outcomes[i]),
             listing, files, i + 1, output_dir, process_func, kwargs, outcomes)

RECURSIVE BatchLoop(_, _, _, _, _, _, _, _)
\* for file_path in files, from the i-th file on
BatchLoop(acc, listing, files, i, output_dir, process_func, kwargs, outcomes) ==
    IF i > Len(files) THEN acc
    ELSE BatchLoop(BatchStep(acc, listing, files[i], output_dir, process_func, kwargs, outcomes[i]),
                   listing, files, i + 1, output_dir, process_func, kwargs, outcomes)

\* a batch runner whose dictionary outlives the call: it starts with an entry that an
\* earlier run left in it
BatchResultsNotFresh(ci, ds, listing, input_dir, output_dir, process_func, kwargs, outcomes) ==
    LET files == get_files_by_extension(ci, ds, listing, PathOf(input_dir), all_extensions)
        results == [success |-> <<"photo.jpg">>, failed |-> <<>>, total |-> Len(files),
                    dirs |-> ds, files |-> files,
                    log |-> <<Event("invoke", "batch_process_files",
                                    <<input_dir, output_dir>> \o kwargs, "")>>]
    IN  BatchLoop(results, listing, files, 1, output_dir, process_func, kwargs, outcomes)

\* a batch runner that makes the destination directory before it enumerates
BatchMakesDestinationFirst(ci, ds, listing, input_dir, output_dir, process_func, kwargs, outcomes) ==
    LET files == get_files_by_extension(ci, ds, listing, PathOf(input_dir), all_extensions)
        made == IF IsStr(output_dir) THEN MakedirsDirs(ds, listing, PathOf(output_dir)) ELSE ds
        results == [success |-> <<>>, failed |-> <<>>, total |-> Len(files), dirs |-> made,
                    files |-> files,
                    log |-> <<Event("invoke", "batch_process_files",
                                    <<input_dir, output_dir>> \o kwargs, "")>>]
    IN  BatchLoop(results, listing, files, 1, output_dir, process_func, kwargs, outcomes)

\* the dictionary results (success, failed, total), with the list `files` the loop
\* runs over, the directories in place at the end and the events
batch_process_files(ci, ds, listing, input_dir, output_dir, process_func, kwargs, outcomes) ==
    LET files == get_files_by_extension(ci, ds, listing, PathOf(input_dir), all_extensions)
        results == [success |-> <<>>, failed |-> <<>>, total |-> Len(files), dirs |-> ds,
                    files |-> files,
                    log |-> <<Event("invoke", "batch_process_files",
                                    <<input_dir, output_dir>> \o kwargs, "")>>]
    IN  BatchLoop(results, listing, files, 1, output_dir, process_func, kwargs, outcomes)

-----------------------------------------------------------------------------
(* The tool catalog (handle_list_tools) *)

\* a catalog that leaves the availability check out
ToolNamesWithoutStatus ==
    <<"compress_image", "batch_compress_images", "convert_image_format", "resize_image",
      "compress_video", "batch_compress_videos", "convert_video_format", "resize_video",
      "get_media_info">>

ToolNames ==
    <<"compress_image", "batch_compress_images", "convert_image_format", "resize_image",
      "compress_video", "batch_compress_videos", "convert_video_format", "resize_video",
      "get_media_info", "check_ffmpeg_status">>

Registered == {ToolNames[i] : i \in 1..Len(ToolNames)}

SingleFileTools ==
    {"compress_image", "convert_image_format", "resize_image",
     "compress_video", "convert_video_format", "resize_video"}

BatchTools == {"batch_compress_images", "batch_compress_videos"}

\* inputSchema["required"] of each tool
Required(name) ==
    CASE name \in {"compress_image", "convert_image_format", "compress_video",
                   "convert_video_format"}  -> {"input_path", "output_path"}
      [] name \in {"resize_image", "resize_video"}
                                            -> {"input_path", "output_path", "width", "height"}
      [] name \in BatchTools                -> {"input_dir", "output_dir"}
      [] name = "get_media_info"            -> {"file_path"}
      [] OTHER                              -> {}

\* inputSchema["properties"][key]["type"] of each parameter
DeclaredType(key) == IF key \in {"quality", "width", "height", "crf"} THEN "int" ELSE "str"

ArgKeys ==
    {"input_path", "output_path", "quality", "width", "height", "crf", "preset",
     "input_dir", "output_dir", "file_path"}

-----------------------------------------------------------------------------
(* handle_call_tool *)

\* the text returned: which message it is, the values it interpolates and, for a
\* batch summary, the three counts, whether the line of failed files is appended
\* and the entries it joins
Result(kind, vals) ==
    [kind |-> kind, vals |-> vals, total |-> 0, succeeded |-> 0, failed |-> 0,
     listsFailed |-> FALSE, failedFiles |-> <<>>]

ResultKinds ==
    {"Success", "Failure", "InputNotFound", "ExecutionError", "BatchSummary", "MediaInfo",
     "ProbeFailure", "Available", "Unavailable", "UnknownTool"}

NoBatch == [success |-> <<>>, failed |-> <<>>, total |-> 0, files |-> <<>>]

\* what a call of the handler comes to: the value it returns, or an exception that
\* leaves it (raised), the directories in place afterwards, the events, and the
\* dictionary the batch runner built
Return(result, ds, log) ==
    [raised |-> FALSE, result |-> result, dirs |-> ds, log |-> log, batch |-> NoBatch]

StatError(v) ==
    IF v = NoneV THEN "stat: path should be string, bytes, os.PathLike or integer, not NoneType"
    ELSE "stat: path should be string, bytes, os.PathLike or integer, not list"

\* the dispatch without its try/except: the TypeError leaves the handler
ExecutionErrorEscapes(ds, v) ==
    [raised |-> TRUE, result |-> Result("", <<>>), dirs |-> ds, log |-> <<>>, batch |-> NoBatch]

\* except Exception as e, around the whole dispatch
ExecutionError(ds, v) == Return(Result("ExecutionError", <<StrV(<<StatError(v)>>)>>), ds, <<>>)

\* an existence check that takes only a directory for an existing input
InputCheckRequiresDirectory(ds, listing, v) ==
    IF ExistsRaises(v) THEN "raise"
    ELSE IF PathOf(v) \notin ds THEN "missing"
    ELSE "ok"

\* a branch that goes on to its operation without the existence check
InputCheckSkipped(ds, listing, v) == IF ExistsRaises(v) THEN "raise" ELSE "ok"

\* if not os.path.exists(path): "raise" (TypeError), "missing" (the early return) or "ok"
InputCheck(ds, listing, v) ==
    IF ExistsRaises(v) THEN "raise"
    ELSE IF ~PathExists(ds, listing, PathOf(v)) THEN "missing"
    ELSE "ok"

\* a single-file branch in which a process that cannot start is an error of its own
SingleFileBranchSpawnError(ds, input_path, r, successVals) ==
    IF r.ok THEN Return(Result("Success", successVals), r.dirs, r.log)
    ELSE IF \E i \in 1..Len(r.log) : r.log[i].ev = "spawn" /\ r.log[i].out = "spawnfail"
    THEN Return(Result("ExecutionError", <<input_path>>), r.dirs, r.log)
    ELSE Return(Result("Failure", <<input_path>>), r.dirs, r.log)

\* the end of a single-file branch: the success or the failure message for the
\* operation's return value r
SingleFileBranch(ds, input_path, r, successVals) ==
    IF r.ok THEN Return(Result("Success", successVals), r.dirs, r.log)
    ELSE Return(Result("Failure", <<input_path>>), r.dirs, r.log)

\* a batch branch from the call of the batch runner on: the summary message
BatchBranch(results) ==
    [raised |-> FALSE,
     result |-> [kind |-> "BatchSummary", vals |-> <<>>, total |-> results.total,
                 succeeded |-> Len(results.success), failed |-> Len(results.failed),
                 listsFailed |-> results.failed # <<>>,
                 failedFiles |-> IF results.failed # <<>> THEN results.failed ELSE <<>>],
     dirs |-> results.dirs, log |-> results.log,
     batch |-> [success |-> results.success, failed |-> results.failed,
                total |-> results.total, files |-> results.files]]

\* a last branch that takes an unknown name for the availability check
UnknownToolProbes(ds, name) ==
    Return(Result("Unavailable", <<>>), ds, check_ffmpeg_available("spawnfail").log)

\* the last branch: the name is none of the tools
UnknownTool(ds, name) == Return(Result("UnknownTool", <<StrV(<<name>>)>>), ds, <<>>)

\* env: the source directory's entries and the outcome of each process, in order
handle_call_tool(ci, ds, name, arguments, env) ==
    LET args == IF arguments.null THEN [k \in ArgKeys |-> Absent] ELSE arguments.map
        input_path == Get(args, "input_path")
        output_path == Get(args, "output_path")
        input_dir == Get(args, "input_dir")
        output_dir == Get(args, "output_dir")
        file_path == Get(args, "file_path")
        quality == GetDefault(args, "quality", DefaultQuality)
        crf == GetDefault(args, "crf", DefaultCrf)
        preset == GetDefault(args, "preset", DefaultPreset)
        width == Get(args, "width")
        height == Get(args, "height")
        ls == env.listing
        o == env.outcomes[1]
    IN
    IF name \in SingleFileTools
    THEN IF InputCheck(ds, ls, input_path) = "raise" THEN ExecutionError(ds, input_path)
         ELSE IF InputCheck(ds, ls, input_path) = "missing"
         THEN Return(Result("InputNotFound", <<input_path>>), ds, <<>>)
         ELSE CASE name = "compress_image" ->
                     SingleFileBranch(ds, input_path,
                         compress_image(ds, ls, input_path, output_path, quality, o),
                         <<input_path, output_path>>)
                [] name = "convert_image_format" ->
                     SingleFileBranch(ds, input_path,
                         convert_image_format(ds, ls, input_path, output_path, o),
                         <<input_path, output_path>>)
                [] name = "resize_image" ->
                     SingleFileBranch(ds, input_path,
                         resize_image(ds, ls, input_path, output_path, width, height, o),
                         <<input_path, output_path, width, height>>)
                [] name = "compress_video" ->
                     SingleFileBranch(ds, input_path,
                         compress_video(ds, ls, input_path, output_path, crf, preset, o),
                         <<input_path, output_path>>)
                [] name = "convert_video_format" ->
                     SingleFileBranch(ds, input_path,
                         convert_video_format(ds, ls, input_path, output_path, o),
                         <<input_path, output_path>>)
                [] name = "resize_video" ->
                     SingleFileBranch(ds, input_path,
                         resize_video(ds, ls, input_path, output_path, width, height, o),
                         <<input_path, output_path, width, height>>)
    ELSE IF name \in BatchTools
    THEN IF InputCheck(ds, ls, input_dir) = "raise" THEN ExecutionError(ds, input_dir)
         ELSE IF InputCheck(ds, ls, input_dir) = "missing"
         THEN Return(Result("InputNotFound", <<input_dir>>), ds, <<>>)
         ELSE IF name = "batch_compress_images"
         THEN BatchBranch(batch_process_files(ci, ds, ls, input_dir, output_dir,
                                              "compress_image", <<quality>>, env.outcomes))
         ELSE BatchBranch(batch_process_files(ci, ds, ls, input_dir, output_dir,
                                              "compress_video", <<crf, preset>>, env.outcomes))
    ELSE IF name = "get_media_info"
    THEN IF InputCheck(ds, ls, file_path) = "raise" THEN ExecutionError(ds, file_path)
         ELSE IF InputCheck(ds, ls, file_path) = "missing"
         THEN Return(Result("InputNotFound", <<file_path>>), ds, <<>>)
         ELSE LET info == get_media_info(file_path, o) IN
              IF info.raised
              THEN Return(Result("ProbeFailure", <<file_path>>), ds, info.log)
              ELSE Return(Result("MediaInfo", <<file_path>>), ds, info.log)
    ELSE IF name = "check_ffmpeg_status"
    THEN LET available == check_ffmpeg_available(o) IN
         IF available.ok THEN Return(Result("Available", <<>>), ds, available.log)
         ELSE Return(Result("Unavailable", <<>>), ds, available.log)
    ELSE UnknownTool(ds, name)

-----------------------------------------------------------------------------
(* Requests *)

InputPathVals == {Absent, StrV(MediaFile), StrV(<<"nope.jpg">>), ListV}
OutputPathVals ==
    {Absent, StrV(<<"out", "x.jpg">>), StrV(<<"x.jpg">>), StrV(<<"media", "photo.jpg", "x.jpg">>),
     ListV}
QualityVals == {Absent, IntV("80"), StrV(<<"high">>)}
DimVals == {Absent, IntV("100"), StrV(<<"wide">>)}
CrfVals == {Absent, IntV("28")}
PresetVals == {Absent, StrV(<<"fast">>), IntV("5")}
InputDirVals == {Absent, StrV(SrcDir), StrV(<<"nope">>), StrV(MediaFile), ListV}
OutputDirVals == {Absent, StrV(<<"out">>), StrV(MediaFile)}
UnknownNames == {"bogus", "compress"}

\* the argument map that holds the keys of m
ArgMap(m) == [k \in ArgKeys |-> IF k \in DOMAIN m THEN m[k] ELSE Absent]

NullArguments == [null |-> TRUE, map |-> ArgMap(<<>>)]
Arguments(m) == [null |-> FALSE, map |-> ArgMap(m)]

IOArgs ==
    {Arguments("input_path" :> i @@ "output_path" :> o) : i \in InputPathVals, o \in OutputPathVals}

ArgumentsOf(name) ==
    {NullArguments} \cup
    CASE name \in {"compress_image"} ->
            {Arguments("input_path" :> i @@ "output_path" :> o @@ "quality" :> q) :
                i \in InputPathVals, o \in OutputPathVals, q \in QualityVals}
      [] name \in {"resize_image", "resize_video"} ->
            {Arguments("input_path" :> i @@ "output_path" :> o @@ "width" :> w @@ "height" :> h) :
                i \in InputPathVals, o \in OutputPathVals, w \in DimVals, h \in DimVals}
      [] name = "compress_video" ->
            {Arguments("input_path" :> i @@ "output_path" :> o @@ "crf" :> c @@ "preset" :> p) :
                i \in InputPathVals, o \in OutputPathVals, c \in CrfVals, p \in PresetVals}
      [] name = "batch_compress_images" ->
            {Arguments("input_dir" :> i @@ "output_dir" :> o @@ "quality" :> q) :
                i \in InputDirVals, o \in OutputDirVals, q \in QualityVals}
      [] name = "batch_compress_videos" ->
            {Arguments("input_dir" :> i @@ "output_dir" :> o @@ "crf" :> c @@ "preset" :> p) :
                i \in InputDirVals, o \in OutputDirVals, c \in CrfVals, p \in PresetVals}
      [] name = "get_media_info" ->
            {Arguments("file_path" :> i) : i \in InputPathVals}
      [] name = "check_ffmpeg_status" -> {Arguments(<<>>)}
      [] OTHER -> IOArgs

-----------------------------------------------------------------------------
(* The server: one request at a time *)

NoRequest ==
    [name |-> "", arguments |-> NullArguments, env |-> [listing |-> <<>>, outcomes |-> <<>>],
     dirsBefore |-> {}, raised |-> FALSE, result |-> Result("", <<>>), log |-> <<>>,
     batch |-> NoBatch]

Init ==
    /\ pc = "idle"
    /\ caseInsensitive \in BOOLEAN
    /\ dirs = {SrcDir, MediaDir}
    /\ last = NoRequest
    /\ listed = <<>>

\* handle_list_tools runs and returns the catalog
ListTools ==
    /\ pc = "idle"
    /\ pc' = "listed"
    /\ listed' = ToolNames
    /\ UNCHANGED <<caseInsensitive, dirs, last>>

\* the handler runs on a request and returns
Call(name, arguments, env) ==
    \E r \in {handle_call_tool(caseInsensitive, dirs, name, arguments, env)} :
    /\ pc' = "responded"
    /\ dirs' = r.dirs
    /\ last' = [name |-> name, arguments |-> arguments, env |-> env, dirsBefore |-> dirs,
                raised |-> r.raised, result |-> r.result, log |-> r.log, batch |-> r.batch]
    /\ UNCHANGED <<caseInsensitive, listed>>

CallCompressImage ==
    /\ pc = "idle"
    /\ \E arguments \in ArgumentsOf("compress_image"), o \in Outcomes :
        Call("compress_image", arguments, [listing |-> <<>>, outcomes |-> <<o>>])

CallConvertImageFormat ==
    /\ pc = "idle"
    /\ \E arguments \in ArgumentsOf("convert_image_format"), o \in Outcomes :
        Call("convert_image_format", arguments, [listing |-> <<>>, outcomes |-> <<o>>])

CallResizeImage ==
    /\ pc = "idle"
    /\ \E arguments \in ArgumentsOf("resize_image"), o \in Outcomes :
        Call("resize_image", arguments, [listing |-> <<>>, outcomes |-> <<o>>])

CallCompressVideo ==
    /\ pc = "idle"
    /\ \E arguments \in ArgumentsOf("compress_video"), o \in Outcomes :
        Call("compress_video", arguments, [listing |-> <<>>, outcomes |-> <<o>>])

CallConvertVideoFormat ==
    /\ pc = "idle"
    /\ \E arguments \in ArgumentsOf("convert_video_format"), o \in Outcomes :
        Call("convert_video_format", arguments, [listing |-> <<>>, outcomes |-> <<o>>])

CallResizeVideo ==
    /\ pc = "idle"
    /\ \E arguments \in ArgumentsOf("resize_video"), o \in Outcomes :
        Call("resize_video", arguments, [listing |-> <<>>, outcomes |-> <<o>>])

\* what a batch tool meets: the source directory's entries when the request names
\* it, and an outcome of the process for each file the batch runner will find
BatchEnvs(arguments) ==
    LET d == Get(IF arguments.null THEN ArgMap(<<>>) ELSE arguments.map, "input_dir")
        listings == IF d = StrV(SrcDir) THEN Listings(caseInsensitive) ELSE {<<>>}
    IN  UNION {{[listing |-> l, outcomes |-> os] :
                  os \in [1..Len(get_files_by_extension(
                               caseInsensitive, dirs, l, PathOf(d), all_extensions))
                           -> Outcomes]} :
               l \in listings}

CallBatchCompressImages ==
    /\ pc = "idle"
    /\ \E arguments \in ArgumentsOf("batch_compress_images") :
        \E env \in BatchEnvs(arguments) :
            Call("batch_compress_images", arguments, env)

CallBatchCompressVideos ==
    /\ pc = "idle"
    /\ \E arguments \in ArgumentsOf("batch_compress_videos") :
        \E env \in BatchEnvs(arguments) :
            Call("batch_compress_videos", arguments, env)

CallGetMediaInfo ==
    /\ pc = "idle"
    /\ \E arguments \in ArgumentsOf("get_media_info"), o \in ProbeOutcomes :
        Call("get_media_info", arguments, [listing |-> <<>>, outcomes |-> <<o>>])

CallCheckFfmpegStatus ==
    /\ pc = "idle"
    /\ \E arguments \in ArgumentsOf("check_ffmpeg_status"), o \in StatusOutcomes :
        Call("check_ffmpeg_status", arguments, [listing |-> <<>>, outcomes |-> <<o>>])

CallUnknownTool ==
    /\ pc = "idle"
    /\ \E name \in UnknownNames, o \in Outcomes :
        \E arguments \in ArgumentsOf(name) :
            Call(name, arguments, [listing |-> <<>>, outcomes |-> <<o>>])

\* the response is delivered; the server waits for the next request
NextRequest ==
    /\ pc \in {"responded", "listed"}
    /\ pc' = "idle"
    /\ last' = NoRequest
    /\ listed' = <<>>
    /\ UNCHANGED <<caseInsensitive, dirs>>

Next ==
    \/ ListTools
    \/ CallCompressImage
    \/ CallBatchCompressImages
    \/ CallConvertImageFormat
    \/ CallResizeImage
    \/ CallCompressVideo
    \/ CallBatchCompressVideos
    \/ CallConvertVideoFormat
    \/ CallResizeVideo
    \/ CallGetMediaInfo
    \/ CallCheckFfmpegStatus
    \/ CallUnknownTool
    \/ NextRequest

Spec == Init /\ [][Next]_vars

-----------------------------------------------------------------------------
(* Properties *)

Responded == pc = "responded"

\* the argument map of the last request, as the handler reads it
LastArgs == IF last.arguments.null THEN ArgMap(<<>>) ELSE last.arguments.map

\* the events of a kind in the last call
LastEvents(ev) == SelectSeq(last.log, LAMBDA e : e.ev = ev)

\* no process was started, or tried to be started, in the last call
NoProcess == LastEvents("spawn") = <<>>

\* the parameter that names the required input of a tool
InputKey(name) ==
    IF name \in SingleFileTools THEN "input_path"
    ELSE IF name \in BatchTools THEN "input_dir"
    ELSE "file_path"

\* C1: every call of handle_call_tool returns a result value, one of the handler's
\* text messages, for every tool name, argument map and process outcome; no
\* exception leaves the handler.
C1_AlwaysReturns ==
    Responded => /\ ~last.raised
                 /\ last.result.kind \in ResultKinds

\* a call in which os.path.exists raised on a null argument map, and was caught
C1_Witness ==
    /\ Responded
    /\ last.name = "resize_image"
    /\ last.arguments.null
    /\ last.result.kind = "ExecutionError"

\* C2: a call of a registered tool without one of its required parameters returns a
\* MissingArgument failure that names the parameter, and starts no process.
C2_MissingArgumentReported ==
    (Responded /\ last.name \in Registered) =>
        \A k \in Required(last.name) :
            LastArgs[k] = Absent =>
                /\ last.result.kind = "MissingArgument"
                /\ \E i \in 1..Len(last.result.vals) : last.result.vals[i] = StrV(<<k>>)
                /\ NoProcess

\* C2, the part about the process alone: a call without a required parameter starts
\* no process.
C2_MissingArgumentNoProcess ==
    (Responded /\ last.name \in Registered) =>
        \A k \in Required(last.name) : LastArgs[k] = Absent => NoProcess

\* C3: when the dispatcher calls an operation or the batch runner, the argument map
\* holds every required parameter of the tool, with a value of the declared type.
C3_InvokedWithValidArguments ==
    (Responded /\ last.name \in Registered /\ LastEvents("invoke") # <<>>) =>
        \A k \in Required(last.name) :
            /\ LastArgs[k] # Absent
            /\ LastArgs[k][1] = DeclaredType(k)

\* C4: when the required input path of a call does not exist, the call returns
\* InputNotFound with that path and starts no process.
C4_MissingInputNoProcess ==
    (Responded /\ last.name \in Registered /\ Required(last.name) # {}) =>
        LET v == LastArgs[InputKey(last.name)] IN
        (IsStr(v) /\ ~PathExists(last.dirsBefore, last.env.listing, PathOf(v))) =>
            /\ last.result.kind = "InputNotFound"
            /\ last.result.vals = <<v>>
            /\ last.log = <<>>

\* get_media_info on a path that does not exist
C4_Witness ==
    /\ Responded
    /\ last.name = "get_media_info"
    /\ LastArgs["file_path"] = StrV(<<"nope.jpg">>)
    /\ last.result.kind = "InputNotFound"

\* C5: a call with a name that is none of the tools returns UnknownOperation with
\* that name, whatever the arguments; it starts no process and makes no directory.
C5_UnknownTool ==
    (Responded /\ last.name \notin Registered) =>
        /\ last.result.kind = "UnknownTool"
        /\ last.result.vals = <<StrV(<<last.name>>)>>
        /\ last.log = <<>>
        /\ dirs = last.dirsBefore

\* an unknown name with an existing input and an output whose directory is missing
C5_Witness ==
    /\ Responded
    /\ last.name = "bogus"
    /\ LastArgs["input_path"] = StrV(MediaFile)
    /\ LastArgs["output_path"] = StrV(<<"out", "x.jpg">>)
    /\ <<"out">> \notin dirs
    /\ last.result.kind = "UnknownTool"

-----------------------------------------------------------------------------
(* Properties of the batch runner *)

\* the last call reached the batch runner
BatchRan == Responded /\ last.name \in BatchTools /\ last.result.kind = "BatchSummary"

\* the files the batch runner of the last call enumerated, in order: its local
\* list `files`
LastFiles == last.batch.files

FileName(file_path) == file_path[Len(file_path)]

\* the calls of the single-file operation in the last call, and what they returned
LastOperationCalls ==
    SelectSeq(last.log, LAMBDA e : e.ev = "invoke" /\ e.op # "batch_process_files")
LastOperationReturns == LastEvents("return")

\* the destination directory of the last batch call is a string: the step of each
\* file gets as far as the single-file operation
StepsReachOperation == IsStr(Get(LastArgs, "output_dir"))

\* the step of the i-th enumerated file failed: the operation returned False, or
\* the step raised before it
StepFailed(i) == StepsReachOperation => LastOperationReturns[i].out = "false"

\* the extension of a file name: the characters after its last dot
ExtensionOf(name) ==
    LET cs == Chars(name)
        dot == CHOOSE i \in 1..Len(cs) : cs[i] = "." /\ \A j \in (i + 1)..Len(cs) : cs[j] # "."
    IN  SubSeq(cs, dot + 1, Len(cs))

\* the extension of the name, ignoring case, is one of extensions
HasExtensionIn(name, extensions) ==
    \E k \in 1..Len(extensions) : Upper(ExtensionOf(name)) = Upper(extensions[k])

\* C6: a batch run over a directory in which N files match, the operation failing on
\* K of them, returns total = N, succeeded + failed = N and failed = K.
C6_BatchCounts ==
    BatchRan =>
        LET matched == {LastFiles[i] : i \in 1..Len(LastFiles)}
            failing == {LastFiles[i] : i \in {j \in 1..Len(LastFiles) : StepFailed(j)}}
        IN  /\ last.result.total = Cardinality(matched)
            /\ last.result.succeeded + last.result.failed = Cardinality(matched)
            /\ last.result.failed = Cardinality(failing)

\* C7: a batch run goes through every enumerated file whatever files fail: the
\* single-file operation is called on each file in turn (when the destination can be
\* joined at all), the run ends with the summary, and every enumerated file is in
\* the succeeded or in the failed list.
C7_BatchIsolatesFailures ==
    (/\ Responded
     /\ last.name \in BatchTools
     /\ InputCheck(last.dirsBefore, last.env.listing, Get(LastArgs, "input_dir")) = "ok") =>
        \A files \in {LastFiles} : \A calls \in {LastOperationCalls} :
        /\ last.result.kind = "BatchSummary"
        /\ StepsReachOperation =>
              /\ Len(calls) = Len(files)
              /\ \A i \in 1..Len(files) : calls[i].vals[1] = StrV(files[i])
        /\ Len(last.batch.success) + Len(last.batch.failed) = Len(files)
        /\ \A i \in 1..Len(files) :
              \/ \E j \in 1..Len(last.batch.success) :
                    last.batch.success[j] = FileName(files[i])
              \/ \E j \in 1..Len(last.batch.failed) :
                    last.batch.failed[j][1] = FileName(files[i])

\* a batch run whose first file fails and whose later file succeeds
C7_Witness ==
    /\ BatchRan
    /\ Len(LastFiles) >= 2
    /\ StepsReachOperation
    /\ LastOperationReturns[1].out = "false"
    /\ LastOperationReturns[Len(LastFiles)].out = "true"
    /\ last.batch.success # <<>>

\* C8: a file of the source directory is in the batch if and only if its extension,
\* ignoring case, is one of the known extensions.
C8_CaseInsensitiveMatch ==
    BatchRan =>
        \A i \in 1..Len(last.env.listing) :
            (\E j \in 1..Len(LastFiles) : FileName(LastFiles[j]) = last.env.listing[i])
                <=> HasExtensionIn(last.env.listing[i], all_extensions)

\* C9: a batch run enumerates only files of its own media type: the image batch
\* image extensions, the video batch video extensions.
C9_OwnMediaTypeOnly ==
    BatchRan =>
        \A i \in 1..Len(LastFiles) :
            HasExtensionIn(FileName(LastFiles[i]),
                           IF last.name = "batch_compress_images"
                           THEN image_extensions ELSE video_extensions)

\* C10 as claimed: a file on which the operation succeeds is recorded under succeeded
\* as its name, and a file on which it fails, in whatever way, under failed as
\* "<file name>: <error>".
C10_FailedEntriesCarryReason ==
    BatchRan =>
        /\ \A j \in 1..Len(last.batch.failed) :
              /\ Len(last.batch.failed[j]) = 3
              /\ last.batch.failed[j][2] = ": "
        /\ \A j \in 1..Len(last.batch.success) : last.batch.success[j] \in FileNames

\* the names of the files whose operation returned `out`, in order
ReturnedNames(out) ==
    LET rs == SelectSeq(LastOperationReturns, LAMBDA e : e.out = out)
    IN  [j \in 1..Len(rs) |-> FileName(PathOf(rs[j].vals[1]))]

\* C10 amended: a file on which the operation returns True is recorded under
\* succeeded as its name; a file on which it returns False (the process exits
\* non-zero or cannot start, the destination directory cannot be made) is recorded
\* under failed as its name alone; "<file name>: <error>" is the entry only of a
\* file whose step raises, which is when the destination path cannot be joined.
C10_FailedEntries ==
    BatchRan =>
        IF StepsReachOperation
        THEN /\ last.batch.success = ReturnedNames("true")
             /\ last.batch.failed = [j \in 1..Len(ReturnedNames("false")) |->
                                        <<ReturnedNames("false")[j]>>]
        ELSE /\ last.batch.success = <<>>
             /\ last.batch.failed = [i \in 1..Len(LastFiles) |->
                                        <<FileName(LastFiles[i]), ": ", JoinError>>]

\* a batch run in which the process of a file exits non-zero
C10_Witness ==
    /\ BatchRan
    /\ \E i \in 1..Len(last.log) : last.log[i].ev = "spawn" /\ last.log[i].out = "nonzero"
    /\ \E j \in 1..Len(last.batch.failed) : Len(last.batch.failed[j]) = 1
    /\ last.batch.success # <<>>

-----------------------------------------------------------------------------
(* Properties of the process invoker *)

\* the argument map of the last request satisfies the tool's schema: every required
\* parameter is there, and every parameter that is there has its declared type
ValidArguments ==
    \A k \in ArgKeys :
        /\ k \in Required(last.name) => LastArgs[k] # Absent
        /\ LastArgs[k] # Absent => LastArgs[k][1] = DeclaredType(k)

\* the required input of the last request exists
InputExists ==
    LET v == LastArgs[InputKey(last.name)]
    IN  IsStr(v) /\ PathExists(last.dirsBefore, last.env.listing, PathOf(v))

\* C11: a single-file transcode tool called with valid arguments and an existing
\* input returns Success if and only if a process was started and exited with 0; a
\* non-zero exit and a process that cannot start give the one Failure message; at
\* most one process is started; and the availability check answers both cases with
\* "not available", never with an error.
C11_SuccessIffExitZero ==
    /\ (Responded /\ last.name \in SingleFileTools /\ ValidArguments /\ InputExists) =>
          LET spawns == LastEvents("spawn") IN
          /\ Len(spawns) <= 1
          /\ last.result.kind \in {"Success", "Failure"}
          /\ last.result.kind = "Success" <=> (Len(spawns) = 1 /\ spawns[1].out = "exit0")
          /\ last.result.kind = "Failure" =>
                last.result = Result("Failure", <<LastArgs["input_path"]>>)
    /\ (Responded /\ last.name = "check_ffmpeg_status") =>
          LET spawns == LastEvents("spawn") IN
          /\ Len(spawns) = 1
          /\ last.result.kind = (IF spawns[1].out = "exit0" THEN "Available" ELSE "Unavailable")

\* a valid compress_video call whose process cannot start
C11_Witness ==
    /\ Responded
    /\ last.name = "compress_video"
    /\ ValidArguments
    /\ InputExists
    /\ LastArgs["preset"] = StrV(<<"fast">>)
    /\ LastEvents("spawn") # <<>>
    /\ LastEvents("spawn")[1].out = "spawnfail"
    /\ last.result.kind = "Failure"

\* C12: the batch runner itself makes no directory: the destination directory is made
\* by the single-file operation, after the operation is called on a matched file and
\* before that file's process is started.  A batch run that matches no file leaves
\* the directories as they were, and every process of a batch run starts with the
\* destination directory in place.
C12_DestinationMadePerFile ==
    BatchRan =>
        /\ LastFiles = <<>> => dirs = last.dirsBefore /\ LastEvents("makedirs") = <<>>
        /\ \A i \in 1..Len(last.log) :
              last.log[i].ev = "makedirs" =>
                  /\ i > 1
                  /\ last.log[i - 1].ev = "invoke"
                  /\ last.log[i - 1].op # "batch_process_files"
        /\ \A i \in 1..Len(last.log) :
              last.log[i].ev = "spawn" =>
                  /\ last.log[i - 1] = Event("makedirs", "", <<LastArgs["output_dir"]>>, "ok")
                  /\ PathOf(LastArgs["output_dir"]) \in dirs

\* a batch run over two matched files into a destination directory that was missing
C12_Witness ==
    /\ BatchRan
    /\ Len(LastFiles) = 2
    /\ LastArgs["output_dir"] = StrV(<<"out">>)
    /\ <<"out">> \notin last.dirsBefore
    /\ <<"out">> \in dirs
    /\ Len(LastEvents("spawn")) = 2

-----------------------------------------------------------------------------
(* Properties of the server as a whole *)

\* the names of the files of a sequence of paths
NamesOf(files) == {FileName(files[i]) : i \in 1..Len(files)}

OperationOf(name) ==
    CASE name \in SingleFileTools        -> name
      [] name \in BatchTools             -> "batch_process_files"
      [] name = "get_media_info"         -> "get_media_info"
      [] name = "check_ffmpeg_status"    -> "check_ffmpeg_available"

\* C14: the catalog and the dispatcher agree.  The names handle_list_tools returns are
\* pairwise distinct and are the same list on every call; a call with an advertised
\* name never ends in the unknown-tool branch, and the operation it calls is the
\* tool's own (for a batch tool the batch runner, with the operation of its media
\* type on each file); and a call that does not end in the unknown-tool branch has
\* an advertised name.
C14_CatalogAgreesWithDispatcher ==
    /\ \A i, j \in 1..Len(ToolNames) : ToolNames[i] = ToolNames[j] => i = j
    /\ pc = "listed" => listed = ToolNames
    /\ (Responded /\ last.name \in Registered) =>
          \A calls \in {LastEvents("invoke")} :
              /\ last.result.kind # "UnknownTool"
              /\ calls # <<>> => calls[1].op = OperationOf(last.name)
              /\ \A i \in 2..Len(calls) :
                    calls[i].op = (IF last.name = "batch_compress_images"
                                   THEN "compress_image" ELSE "compress_video")
    /\ (Responded /\ last.result.kind # "UnknownTool") => last.name \in Registered

\* a call of the last tool of the catalog that reaches its operation
C14_Witness ==
    /\ Responded
    /\ last.name = ToolNames[Len(ToolNames)]
    /\ LastEvents("invoke") # <<>>
    /\ LastEvents("invoke")[1].op = "check_ffmpeg_available"
    /\ last.result.kind = "Available"

-----------------------------------------------------------------------------
(* Properties of the enumeration *)

\* the entries of the source directory that one of the patterns of the batch runner
\* matches on the platform
Matching ==
    {last.env.listing[i] : i \in {j \in 1..Len(last.env.listing) :
                                     GlobMatches[caseInsensitive][last.env.listing[j]] # {}}}

\* C15: in a batch run over the source directory every matching file is enumerated
\* exactly once: no path is twice in the list get_files_by_extension returns, total is
\* the number of distinct matching files, and no file name is more than once in the
\* succeeded and failed lists together; on either platform.
C15_EnumeratedOnce ==
    (BatchRan /\ LastArgs["input_dir"] = StrV(SrcDir)) =>
        \A files \in {LastFiles} :
        \A entries \in {last.batch.success
                           \o [j \in 1..Len(last.batch.failed) |-> last.batch.failed[j][1]]} :
            /\ NamesOf(files) = Matching
            /\ \A i, j \in 1..Len(files) : files[i] = files[j] => i = j
            /\ last.batch.total = Cardinality(Matching)
            /\ \A i, j \in 1..Len(entries) : entries[i] = entries[j] => i = j

-----------------------------------------------------------------------------
(* Properties of the single-file operations *)

\* C16: in a transcode operation the parent directory of the output path is made
\* before the process is started; when making it raises, which it does for an output
\* path without directory part, the operation starts no process and returns False,
\* and the dispatcher answers Failure although the input exists and the process would
\* have exited with 0.
C16_MakedirsBeforeSpawn ==
    (Responded /\ last.name \in SingleFileTools \cup BatchTools) =>
        /\ \A i \in 1..Len(last.log) :
              last.log[i].ev = "spawn" =>
                  /\ i > 1
                  /\ last.log[i - 1].ev = "makedirs"
                  /\ last.log[i - 1].out = "ok"
                  /\ last.log[i - 1].vals = <<StrV(DirName(PathOf(last.log[i].vals[2])))>>
        /\ \A i \in 1..Len(last.log) :
              (last.log[i].ev = "makedirs" /\ last.log[i].out = "raise") =>
                  /\ i < Len(last.log)
                  /\ last.log[i + 1].ev = "return"
                  /\ last.log[i + 1].out = "false"
        /\ (/\ last.name \in SingleFileTools
            /\ InputExists
            /\ IsStr(LastArgs["output_path"])
            /\ DirName(PathOf(LastArgs["output_path"])) = <<>>) =>
              /\ last.log[2] = Event("makedirs", "", <<StrV(<<>>)>>, "raise")
              /\ NoProcess
              /\ last.result = Result("Failure", <<LastArgs["input_path"]>>)

\* compress_image on an existing input with the output "x.jpg", ffmpeg at hand
C16_Witness ==
    /\ Responded
    /\ last.name = "compress_image"
    /\ LastArgs["input_path"] = StrV(MediaFile)
    /\ LastArgs["output_path"] = StrV(<<"x.jpg">>)
    /\ last.env.outcomes = <<"exit0">>
    /\ NoProcess
    /\ last.result.kind = "Failure"

\* C17: a batch tool answers InputNotFound only when the source path does not exist.
\* When the source path is a regular file the batch runner enumerates nothing: no
\* operation is called, no process started, no directory made, and the answer is
\* the completion summary with total 0, 0 succeeded and 0 failed.  The summary has
\* the line of failed files exactly when a file failed.
C17_BatchOverRegularFile ==
    (Responded /\ last.name \in BatchTools) =>
        \A v \in {Get(LastArgs, "input_dir")} :
            /\ last.result.kind = "InputNotFound" =>
                  /\ IsStr(v)
                  /\ ~PathExists(last.dirsBefore, last.env.listing, PathOf(v))
            /\ (IsStr(v) /\ IsRegularFile(last.env.listing, PathOf(v))) =>
                  /\ last.result.kind = "BatchSummary"
                  /\ last.result.total = 0
                  /\ last.result.succeeded = 0
                  /\ last.result.failed = 0
                  /\ ~last.result.listsFailed
                  /\ LastOperationCalls = <<>>
                  /\ NoProcess
                  /\ dirs = last.dirsBefore
            /\ last.result.kind = "BatchSummary" =>
                  /\ last.result.listsFailed <=> last.result.failed > 0
                  /\ last.result.listsFailed => last.result.failedFiles = last.batch.failed

\* a video batch whose source path is the regular file media/photo.jpg
C17_Witness ==
    /\ Responded
    /\ last.name = "batch_compress_videos"
    /\ LastArgs["input_dir"] = StrV(MediaFile)
    /\ LastArgs["output_dir"] = StrV(<<"out">>)
    /\ last.result.kind = "BatchSummary"
    /\ last.result.total = 0

====
